---- MODULE Spec2Model ----
(***************************************************************************)
(* Model of the event loop of src/src/main.rs (lyric timeline, scroll      *)
(* state, artwork state, in-flight fetch tasks, the mpsc channel and the   *)
(* tasks that send into it), of the lyrics card and the artwork of         *)
(* src/src/ui.rs, of the parser of src/src/lyrics.rs and of the rasterizer *)
(* of src/src/artwork.rs.                                                  *)
(*                                                                         *)
(* Option<T> is a sequence: None is << >> and Some(x) is <<x>>.            *)
(* Indices are 0-based as in the source; line i of a timeline is lyrics[i+1]. *)
(***************************************************************************)
EXTENDS Integers, Sequences, FiniteSets, Bags, TLC

None == << >>
Some(x) == <<x>>
IsSome(o) == o /= << >>
IsNone(o) == o = << >>
Unwrap(o) == o[1]

Min(a, b) == IF a <= b THEN a ELSE b
Max(a, b) == IF a >= b THEN a ELSE b
\* usize::saturating_sub
SatSub(a, b) == IF a >= b THEN a - b ELSE 0

(***************************************************************************)
(* Bounds of the model.                                                    *)
(***************************************************************************)
\* fetch tasks (lyrics and artwork together) that may be in flight at once
MaxInFlight == 3
\* rows of the lyrics card (inner_lyrics_area.height)
ViewHeight == 2

(***************************************************************************)
(* Inputs: what the player poll and the fetchers can deliver.              *)
(***************************************************************************)
Line(ts, text) == [timestamp_ms |-> ts, text |-> text]

\* the transcript of the specification's end-to-end scenario
TimelineA == << Line(1500, "Hello"), Line(3000, "World") >>
TimelineB == << Line(1500, "x"), Line(3000, "y"), Line(4500, "z") >>
Timelines == {TimelineA, TimelineB}

\* positions the player poll reports
Positions == {0, 3000}

Song(name, artist, source, url) ==
    [name |-> name, artist |-> artist, source |-> source, artwork_url |-> url]

\* "a"+"bc" and "ab"+"c" are different songs with the same concatenation
Songs == { Song("a", "bc", "Spotify", Some("u1")),
           Song("ab", "c", "Spotify", Some("u2")),
           Song("ab", "bc", "Music", None) }

TrackInfo(song, pos) ==
    [name |-> song.name, artist |-> song.artist, source |-> song.source,
     artwork_url |-> song.artwork_url, position_ms |-> pos]

TrackInfos == { TrackInfo(s, p) : s \in Songs, p \in Positions }

\* format!("{}{}", track.name, track.artist)
TrackId(track) == track.name \o track.artist

\* what a fetch was started for (name and artist are sent as separate fields)
TrackKey(track) == [name |-> track.name, artist |-> track.artist]

(***************************************************************************)
(* State.                                                                  *)
(***************************************************************************)
VARIABLES
    pc,                     \* position in the loop: "top", "recv" (awaiting an event), "done"
    event,                  \* kind of the event this iteration took from rx.recv(), "none" before
    app_is_running,         \* app.is_running
    app_track,              \* app.track: Option<TrackInfo>
    app_lyrics,             \* app.lyrics: Option<Vec<LyricLine>>
    app_artwork,            \* app.artwork: ArtworkState
    app_lyrics_offset,      \* app.lyrics_offset: Option<usize>
    app_last_scroll_time,   \* app.last_scroll_time: Option<Instant>, as Some(whole seconds elapsed)
    app_lyrics_hitboxes,    \* app.lyrics_hitboxes: timestamp of the line drawn in each row
    last_track_id,          \* main's last_track_id
    last_artwork_url,       \* main's last_artwork_url
    lyrics_tasks,           \* bag of spawned lyrics fetch tasks that have not finished
    artwork_tasks,          \* bag of spawned artwork fetch tasks that have not finished
    lyrics_area,            \* ui's lyrics_area: Some(rows of the lyrics card) or None when it is hidden
    mouse_row,              \* mouse.row of the click this iteration took, as Some(row of the card)
    player_seek,            \* the timestamp this iteration passed to p.seek, if any
    rx_queue,               \* the mpsc channel: the messages sent and not yet received, oldest first
    received,               \* the message rx.recv() returned to this iteration, where the channel is modelled
    input_sent,             \* how many events of the input stream the input task has sent
    fn_args,                \* function-level specifications: the inputs drawn
    fn_rets                 \* function-level specifications: the results computed so far

appVars == << app_is_running, app_track, app_lyrics, app_artwork, app_lyrics_offset,
              app_last_scroll_time, app_lyrics_hitboxes >>
loopVars == << last_track_id, last_artwork_url >>
taskVars == << lyrics_tasks, artwork_tasks >>
fnVars == << fn_args, fn_rets >>
ioVars == << lyrics_area, mouse_row, player_seek >>
chanVars == << rx_queue, received, input_sent >>
vars == << pc, event, appVars, loopVars, taskVars, fnVars, ioVars, chanVars >>

(***************************************************************************)
(* The natural index, as each place of the source computes it.             *)
(***************************************************************************)
\* lyrics.iter().position(|l| l.timestamp_ms > pos): Option of a 0-based index
position(lyrics, pos) ==
    LET hits == { i \in 0 .. Len(lyrics) - 1 : lyrics[i + 1].timestamp_ms > pos }
    IN  IF hits = {} THEN None
        ELSE Some(CHOOSE i \in hits : \A j \in hits : i <= j)

\* .map(|i| if i > 0 { i - 1 } else { 0 })
StepBack(opt) == IF IsNone(opt) THEN None
                 ELSE Some(IF Unwrap(opt) > 0 THEN Unwrap(opt) - 1 ELSE 0)

\* .unwrap_or(d)
UnwrapOr(opt, d) == IF IsNone(opt) THEN d ELSE Unwrap(opt)

\* main.rs, ScrollDown / ScrollUp seeding
current_idx(lyrics, pos) == UnwrapOr(StepBack(position(lyrics, pos)), 0)

\* main.rs, Tick convergence target
target_idx(lyrics, pos) == UnwrapOr(StepBack(position(lyrics, pos)), 0)

\* ui.rs, highlighted line
ui_current_idx(lyrics, track_ms) ==
    UnwrapOr(StepBack(position(lyrics, track_ms)), SatSub(Len(lyrics), 1))

(***************************************************************************)
(* The lyrics card of ui::ui.                                              *)
(***************************************************************************)
\* app.track.as_ref().map(|t| t.position_ms).unwrap_or(0)
track_ms(track) == IF IsSome(track) THEN Unwrap(track).position_ms ELSE 0

\* a window start that takes the manual offset as it is
start_idx_Unclamped(lyrics, offset, track, height) ==
    IF IsSome(offset)
    THEN Unwrap(offset)
    ELSE SatSub(ui_current_idx(lyrics, track_ms(track)), height \div 2)

start_idx(lyrics, offset, track, height) ==
    IF IsSome(offset)
    THEN Min(Unwrap(offset), SatSub(Len(lyrics), 1))
    ELSE SatSub(ui_current_idx(lyrics, track_ms(track)), height \div 2)

end_idx(lyrics, offset, track, height) ==
    Min(start_idx(lyrics, offset, track, height) + height, Len(lyrics))

\* the hit-test table one render pass leaves: row k holds the timestamp of line start+k
Hitboxes(lyrics, offset, track, height) ==
    IF IsNone(lyrics) THEN << >>
    ELSE LET l == Unwrap(lyrics)
             s == start_idx(l, offset, track, height)
             e == end_idx(l, offset, track, height)
         IN  [k \in 1 .. (e - s) |-> l[s + k].timestamp_ms]

\* the lyrics card of one render pass: the table is cleared and rebuilt only when the
\* layout gives the card an area
Render(hitboxes, area, lyrics, offset, track) ==
    IF IsSome(area) THEN Hitboxes(lyrics, offset, track, Unwrap(area)) ELSE hitboxes

(***************************************************************************)
(* Initial state: App::new, then main's locals, nothing spawned yet.       *)
(***************************************************************************)
ArtIdle == [kind |-> "Idle"]
ArtLoading == [kind |-> "Loading"]
ArtFailed == [kind |-> "Failed"]
ArtLoaded(img) == [kind |-> "Loaded", img |-> img]

Init ==
    /\ pc = "top"
    /\ event = "none"
    /\ app_is_running = TRUE
    /\ app_track = None
    /\ app_lyrics = None
    /\ app_artwork = ArtIdle
    /\ app_lyrics_offset = None
    /\ app_last_scroll_time = None
    /\ app_lyrics_hitboxes = << >>
    /\ last_track_id = ""
    /\ last_artwork_url = None
    /\ lyrics_tasks = EmptyBag
    /\ artwork_tasks = EmptyBag
    /\ lyrics_area = Some(ViewHeight)
    /\ mouse_row = None
    /\ player_seek = None
    /\ rx_queue = << >>
    /\ received = None
    /\ input_sent = 0
    /\ fn_args = None
    /\ fn_rets = None

(***************************************************************************)
(* The loop of main: auto-reset check, render pass, then one event.        *)
(***************************************************************************)
\* t.elapsed().as_secs() >= 3
ScrollHoldSecs == 3

\* the end of one loop iteration: if !app.is_running { break; }
LoopEnd(running) == pc' = IF running THEN "top" ELSE "done"

\* an auto-reset that never fires
AutoReset_Never(last_scroll_time) == last_scroll_time

\* "Auto-Reset Lyrics Scroll Logic" at the top of the loop
AutoReset(last_scroll_time) ==
    IF IsSome(last_scroll_time) /\ Unwrap(last_scroll_time) >= ScrollHoldSecs
    THEN None
    ELSE last_scroll_time

\* the head of one loop iteration, up to the await of rx.recv(): the auto-reset check, then
\* terminal.draw(|f| ui::ui(f, &mut app)), whose lyrics card rebuilds the hit-test table
LoopTop ==
    /\ event' = "none"
    /\ mouse_row' = None
    /\ player_seek' = None
    /\ received' = None
    /\ UNCHANGED << fnVars, lyrics_area, rx_queue, input_sent >>
    /\ pc = "top"
    /\ app_last_scroll_time' = AutoReset(app_last_scroll_time)
    /\ app_lyrics_hitboxes' = Render(app_lyrics_hitboxes, lyrics_area, app_lyrics,
                                     app_lyrics_offset, app_track)
    /\ pc' = "recv"
    /\ UNCHANGED << app_is_running, app_track, app_lyrics, app_artwork, app_lyrics_offset,
                    loopVars, taskVars >>

\* a second passes while the loop awaits rx.recv(); the age of the Instant saturates
\* at the threshold, beyond which the program cannot tell ages apart
TimePasses ==
    /\ UNCHANGED << event, fnVars, ioVars, chanVars >>
    /\ pc = "recv"
    /\ IsSome(app_last_scroll_time)
    /\ Unwrap(app_last_scroll_time) < ScrollHoldSecs
    /\ app_last_scroll_time' = Some(Unwrap(app_last_scroll_time) + 1)
    /\ UNCHANGED << pc, app_is_running, app_track, app_lyrics, app_artwork, app_lyrics_offset,
                    app_lyrics_hitboxes, loopVars, taskVars >>

(***************************************************************************)
(* Input events.                                                           *)
(***************************************************************************)
\* rows a click can land on; row ViewHeight lies below every drawn line
ClickRows == 0 .. ViewHeight

\* track.position_ms = *timestamp, when a track is present
SeekTo(track, timestamp) ==
    IF IsSome(track) THEN Some([Unwrap(track) EXCEPT !.position_ms = timestamp]) ELSE track

\* MouseEventKind::Down(MouseButton::Left); the buttons of handle_click change no field modelled here
MouseDown(row) ==
    /\ event' = "MouseDown"
    /\ mouse_row' = Some(row)
    /\ UNCHANGED << fnVars, lyrics_area, chanVars >>
    /\ pc = "recv"
    /\ IF row + 1 <= Len(app_lyrics_hitboxes)
       THEN /\ player_seek' = Some(app_lyrics_hitboxes[row + 1])
            /\ app_track' = SeekTo(app_track, app_lyrics_hitboxes[row + 1])
            /\ app_lyrics_offset' = None
       ELSE UNCHANGED << app_track, app_lyrics_offset, player_seek >>
    /\ LoopEnd(app_is_running)
    /\ UNCHANGED << app_is_running, app_lyrics, app_artwork, app_last_scroll_time,
                    app_lyrics_hitboxes, loopVars, taskVars >>

\* the offset a scroll starts from: seeded from current_idx when none exists
Seeded(lyrics, track, offset) ==
    IF IsNone(offset) THEN current_idx(lyrics, track.position_ms) ELSE Unwrap(offset)

\* a scroll down without the clamp
ScrollDownStep_Unclamped(off, lyrics) == off + 1

\* off.saturating_add(1).min(lyrics.len().saturating_sub(1))
ScrollDownStep(off, lyrics) == Min(off + 1, SatSub(Len(lyrics), 1))

\* off.saturating_sub(1)
ScrollUpStep(off) == SatSub(off, 1)

\* MouseEventKind::ScrollDown
ScrollDown ==
    /\ event' = "ScrollDown"
    /\ UNCHANGED << fnVars, ioVars, chanVars >>
    /\ pc = "recv"
    /\ IF IsSome(app_lyrics) /\ IsSome(app_track)
       THEN /\ app_lyrics_offset' =
                   Some(ScrollDownStep(Seeded(Unwrap(app_lyrics), Unwrap(app_track), app_lyrics_offset),
                                       Unwrap(app_lyrics)))
            /\ app_last_scroll_time' = Some(0)
       ELSE UNCHANGED << app_lyrics_offset, app_last_scroll_time >>
    /\ LoopEnd(app_is_running)
    /\ UNCHANGED << app_is_running, app_track, app_lyrics, app_artwork, app_lyrics_hitboxes,
                    loopVars, taskVars >>

\* MouseEventKind::ScrollUp
ScrollUp ==
    /\ event' = "ScrollUp"
    /\ UNCHANGED << fnVars, ioVars, chanVars >>
    /\ pc = "recv"
    /\ IF IsSome(app_lyrics) /\ IsSome(app_track)
       THEN /\ app_lyrics_offset' =
                   Some(ScrollUpStep(Seeded(Unwrap(app_lyrics), Unwrap(app_track), app_lyrics_offset)))
            /\ app_last_scroll_time' = Some(0)
       ELSE UNCHANGED << app_lyrics_offset, app_last_scroll_time >>
    /\ LoopEnd(app_is_running)
    /\ UNCHANGED << app_is_running, app_track, app_lyrics, app_artwork, app_lyrics_hitboxes,
                    loopVars, taskVars >>

\* KeyCode::Char('q') clears app.is_running and the loop breaks: main returns, which
\* drops app, the loop's locals and the runtime with its tasks, so "done" keeps no
\* value of them. The other keys only call the player: see OtherEvent.
Keys == {"q"}

Key(code) ==
    /\ event' = "Key"
    /\ UNCHANGED << fnVars, chanVars >>
    /\ pc = "recv"
    /\ IF code = "q"
       THEN /\ pc' = "done"
            /\ app_is_running' = FALSE
            /\ app_track' = None
            /\ app_lyrics' = None
            /\ app_artwork' = ArtIdle
            /\ app_lyrics_offset' = None
            /\ app_last_scroll_time' = None
            /\ app_lyrics_hitboxes' = << >>
            /\ last_track_id' = ""
            /\ last_artwork_url' = None
            /\ lyrics_tasks' = EmptyBag
            /\ artwork_tasks' = EmptyBag
            /\ lyrics_area' = Some(ViewHeight)
            /\ UNCHANGED << mouse_row, player_seek >>
       ELSE /\ LoopEnd(app_is_running)
            /\ UNCHANGED << appVars, loopVars, taskVars, ioVars >>

(***************************************************************************)
(* Player poll, fetch results and ticks.                                   *)
(***************************************************************************)
\* the task spawned for fetcher.fetch(&artist, &name, dur)
LyricsTask(track) == [track |-> TrackKey(track)]

\* the tasks spawned for fetch_itunes_artwork (url = None) and fetch_image(&url)
ArtworkTask(track, url) == [track |-> TrackKey(track), url |-> url]

Spawn(tasks, task) == tasks (+) SetToBag({task})
Finish(tasks, task) == tasks (-) SetToBag({task})

\* a comparison that takes every reported track for a new one
TrackChanged_Always(track, last_id) == TRUE

\* if id != last_track_id
TrackChanged(track, last_id) == TrackId(track) /= last_id

\* if track.source == "Music" && track.artwork_url.is_none(), inside the track change
WantsFallback(track, last_id) ==
    TrackChanged(track, last_id) /\ track.source = "Music" /\ IsNone(track.artwork_url)

\* a URL fetch for every poll that reports a URL
WantsUrlFetch_Always(track, last_url) == IsSome(track.artwork_url)

\* if track.artwork_url != last_artwork_url { if let Some(url) = .. { if Some(url) != last_artwork_url
WantsUrlFetch(track, last_url) ==
    track.artwork_url /= last_url /\ IsSome(track.artwork_url)

\* a track change that leaves the fields as they were
ResetOnChange_Kept(changed, field) == field

\* app.lyrics = None; app.lyrics_offset = None; app.last_scroll_time = None, on a track change
ResetOnChange(changed, field) == IF changed THEN None ELSE field

\* AppEvent::TrackUpdate(info)
TrackUpdate(info) ==
    /\ event' = "TrackUpdate"
    /\ UNCHANGED << fnVars, ioVars, chanVars >>
    /\ pc = "recv"
    /\ app_track' = info
    /\ IF IsSome(info)
       THEN LET track == Unwrap(info)
                changed == TrackChanged(track, last_track_id)
                fallback == WantsFallback(track, last_track_id)
                urlfetch == WantsUrlFetch(track, last_artwork_url)
            IN  /\ last_track_id' = IF changed THEN TrackId(track) ELSE last_track_id
                /\ app_lyrics' = ResetOnChange(changed, app_lyrics)
                /\ app_lyrics_offset' = ResetOnChange(changed, app_lyrics_offset)
                /\ app_last_scroll_time' = ResetOnChange(changed, app_last_scroll_time)
                /\ lyrics_tasks' = IF changed THEN Spawn(lyrics_tasks, LyricsTask(track))
                                   ELSE lyrics_tasks
                /\ last_artwork_url' = IF urlfetch THEN track.artwork_url ELSE last_artwork_url
                /\ app_artwork' = IF fallback \/ urlfetch THEN ArtLoading ELSE app_artwork
                /\ artwork_tasks' =
                       IF fallback \/ urlfetch
                       THEN Spawn(artwork_tasks, ArtworkTask(track, track.artwork_url))
                       ELSE artwork_tasks
       ELSE /\ last_track_id' = ""
            /\ last_artwork_url' = None
            /\ app_artwork' = ArtIdle
            /\ UNCHANGED << app_lyrics, app_lyrics_offset, app_last_scroll_time,
                            lyrics_tasks, artwork_tasks >>
    /\ BagCardinality(lyrics_tasks') + BagCardinality(artwork_tasks') <= MaxInFlight
    /\ LoopEnd(app_is_running)
    /\ UNCHANGED << app_is_running, app_lyrics_hitboxes >>

\* what a finished fetch can report: Ok(None) or Ok(Some(lines))
LyricsResults == {None} \cup { Some(t) : t \in Timelines }

\* AppEvent::LyricsUpdate(lyrics), sent by a task whose fetch returned Ok
LyricsUpdate(task, lyrics) ==
    /\ event' = "LyricsUpdate"
    /\ UNCHANGED << fnVars, ioVars, chanVars >>
    /\ pc = "recv"
    /\ BagIn(task, lyrics_tasks)
    /\ lyrics_tasks' = Finish(lyrics_tasks, task)
    /\ app_lyrics' = lyrics
    /\ LoopEnd(app_is_running)
    /\ UNCHANGED << app_is_running, app_track, app_artwork, app_lyrics_offset,
                    app_last_scroll_time, app_lyrics_hitboxes, loopVars, artwork_tasks >>

\* a lyrics task whose fetch returned Err sends nothing
LyricsFetchFails(task) ==
    /\ UNCHANGED << event, fnVars, ioVars, chanVars >>
    /\ BagIn(task, lyrics_tasks)
    /\ lyrics_tasks' = Finish(lyrics_tasks, task)
    /\ UNCHANGED << pc, appVars, loopVars, artwork_tasks >>

\* what an artwork task can report: Loaded(img) with the image it fetched, or Failed
ArtworkResults(task) == {ArtLoaded(task), ArtFailed}

\* AppEvent::ArtworkUpdate(data)
ArtworkUpdate(task, data) ==
    /\ event' = "ArtworkUpdate"
    /\ UNCHANGED << fnVars, ioVars, chanVars >>
    /\ pc = "recv"
    /\ BagIn(task, artwork_tasks)
    /\ artwork_tasks' = Finish(artwork_tasks, task)
    /\ app_artwork' = data
    /\ LoopEnd(app_is_running)
    /\ UNCHANGED << app_is_running, app_track, app_lyrics, app_lyrics_offset,
                    app_last_scroll_time, app_lyrics_hitboxes, loopVars, lyrics_tasks >>

\* "2. Animate Offset": one line toward the target, None once it is reached
Animate(curr, target) ==
    IF curr < target THEN Some(curr + 1)
    ELSE IF curr > target THEN Some(curr - 1)
    ELSE None

\* a tick that, in Auto, seeds a manual offset at its target
Tick_SeedsInAuto ==
    /\ event' = "Tick"
    /\ UNCHANGED << fnVars, ioVars, chanVars >>
    /\ pc = "recv"
    /\ app_lyrics_offset' =
           IF IsNone(app_lyrics_offset) /\ IsSome(app_lyrics) /\ IsSome(app_track)
           THEN Some(target_idx(Unwrap(app_lyrics), Unwrap(app_track).position_ms))
           ELSE app_lyrics_offset
    /\ LoopEnd(app_is_running)
    /\ UNCHANGED << app_is_running, app_track, app_lyrics, app_artwork, app_last_scroll_time,
                    app_lyrics_hitboxes, loopVars, taskVars >>

\* AppEvent::Tick
Tick ==
    /\ event' = "Tick"
    /\ UNCHANGED << fnVars, ioVars, chanVars >>
    /\ pc = "recv"
    /\ IF /\ IsNone(app_last_scroll_time) /\ IsSome(app_lyrics_offset)
          /\ IsSome(app_lyrics) /\ IsSome(app_track)
       THEN app_lyrics_offset' =
                Animate(Unwrap(app_lyrics_offset),
                        target_idx(Unwrap(app_lyrics), Unwrap(app_track).position_ms))
       ELSE UNCHANGED app_lyrics_offset
    /\ LoopEnd(app_is_running)
    /\ UNCHANGED << app_is_running, app_track, app_lyrics, app_artwork, app_last_scroll_time,
                    app_lyrics_hitboxes, loopVars, taskVars >>

\* AppEvent::ThemeUpdate, AppEvent::Input(_), the keys that call the player, a mouse event of
\* another kind: no field modelled here changes
OtherEvent ==
    /\ event' = "Other"
    /\ UNCHANGED << fnVars, ioVars, chanVars >>
    /\ pc = "recv"
    /\ LoopEnd(app_is_running)
    /\ UNCHANGED << appVars, loopVars, taskVars >>

\* the layouts a terminal size gives the lyrics card: shown with ViewHeight rows, or hidden
\* (vertical mode and height < 40)
LyricsAreas == {Some(ViewHeight), None}

\* Event::Resize reaches the loop as AppEvent::Input(_): the handler does nothing, and the
\* next render pass lays the cards out for the new terminal size
Resize(area) ==
    /\ event' = "Resize"
    /\ UNCHANGED << fnVars, mouse_row, player_seek, chanVars >>
    /\ pc = "recv"
    /\ area /= lyrics_area
    /\ lyrics_area' = area
    /\ LoopEnd(app_is_running)
    /\ UNCHANGED << appVars, loopVars, taskVars >>

TrackUpdates == {None} \cup { Some(t) : t \in TrackInfos }
LyricsTasks == { LyricsTask(s) : s \in Songs }
ArtworkTasks == { ArtworkTask(s, s.artwork_url) : s \in Songs }

Next ==
    \/ LoopTop
    \/ TimePasses
    \/ \E row \in ClickRows : MouseDown(row)
    \/ ScrollDown
    \/ ScrollUp
    \/ \E code \in Keys : Key(code)
    \/ \E info \in TrackUpdates : TrackUpdate(info)
    \/ \E task \in LyricsTasks, lyrics \in LyricsResults : LyricsUpdate(task, lyrics)
    \/ \E task \in LyricsTasks : LyricsFetchFails(task)
    \/ \E task \in ArtworkTasks : \E data \in ArtworkResults(task) : ArtworkUpdate(task, data)
    \/ Tick
    \/ OtherEvent
Spec == Init /\ [][Next]_vars

(***************************************************************************)
(* The loop with a terminal that is resized: one song, with the player     *)
(* starting and ending its session, and the lyrics card shown or hidden as *)
(* the terminal size changes.                                              *)
(***************************************************************************)
ViewTrackUpdates ==
    {None} \cup { Some(TrackInfo(Song("a", "bc", "Spotify", Some("u1")), p)) : p \in Positions }

ViewNext ==
    \/ LoopTop
    \/ TimePasses
    \/ \E area \in LyricsAreas : Resize(area)
    \/ \E row \in ClickRows : MouseDown(row)
    \/ ScrollDown
    \/ ScrollUp
    \/ \E info \in ViewTrackUpdates : TrackUpdate(info)
    \/ \E task \in LyricsTasks, lyrics \in LyricsResults : LyricsUpdate(task, lyrics)
    \/ \E task \in ArtworkTasks : \E data \in ArtworkResults(task) : ArtworkUpdate(task, data)
    \/ Tick

ViewSpec == Init /\ [][ViewNext]_vars

(***************************************************************************)
(* The loop over player sessions that come and go: the polls report a      *)
(* titled Spotify track, a Music track without artwork URL, a track whose  *)
(* name and artist are both empty, or no session; the fetches report.      *)
(***************************************************************************)
\* parts[0] and parts[1] of the player's answer are taken as they are, empty or not
SessionSongs == { Song("a", "bc", "Spotify", Some("u1")),
                  Song("ab", "bc", "Music", None),
                  Song("", "", "Spotify", Some("u3")) }

SessionArtworkTasks == { ArtworkTask(s, s.artwork_url) : s \in SessionSongs }

SessionNext ==
    \/ LoopTop
    \/ TimePasses
    \/ ScrollDown
    \/ \E info \in {None} \cup { Some(TrackInfo(s, 3000)) : s \in SessionSongs } : TrackUpdate(info)
    \/ \E s \in SessionSongs, lyrics \in LyricsResults : LyricsUpdate(LyricsTask(s), lyrics)
    \/ \E task \in SessionArtworkTasks : \E data \in ArtworkResults(task) : ArtworkUpdate(task, data)

SessionSpec == Init /\ [][SessionNext]_vars

\* an artwork fetch comes back and its task sends the result, which the loop receives
ArtworkFetchReports(task) == \E data \in ArtworkResults(task) : ArtworkUpdate(task, data)

\* the sessions under fair scheduling: each iteration reaches its await, and the channel
\* hands every result an artwork task sends to the loop, however many other events arrive
SessionLiveSpec ==
    /\ SessionSpec
    /\ WF_vars(LoopTop)
    /\ \A task \in SessionArtworkTasks : SF_vars(ArtworkFetchReports(task))

(***************************************************************************)

(* The loop fed through the channel of main: the input task, the polling   *)
(* task, the tick task and the fetch tasks send their messages into one    *)
(* mpsc channel, and each loop iteration handles the message rx.recv()     *)
(* returns. One song is playing and no time passes on the hold timer.      *)
(***************************************************************************)
\* messages the channel holds before a send has to wait (mpsc::channel(100) in the source)
ChannelCap == 3
\* events the input stream yields
MaxInputs == 3

\* a message of the channel; seq is the position of an input event in the input stream,
\* 0 for the messages of the other tasks
Msg(kind, seq, arg) == [kind |-> kind, seq |-> seq, arg |-> arg]

\* the mouse events reader.next() yields: the scrolls, and a click on the first row
InputEvents ==
    { [kind |-> "ScrollDown", arg |-> None],
      [kind |-> "ScrollUp", arg |-> None],
      [kind |-> "MouseDown", arg |-> Some(0)] }

\* what the other senders deliver: the poll finds the song playing at 3000 ms, its lyrics
\* fetch finds the two-line timeline, its artwork fetch fails
PolledTracks == { Some(TrackInfo(Song("a", "bc", "Spotify", Some("u1")), 3000)) }
FetchedLyrics == { Some(TimelineA) }
FetchedArtwork == { ArtFailed }

IsInput(m) == m.kind \in {"ScrollDown", "ScrollUp", "MouseDown"}

\* a send that puts the message at the head of the channel
Send_First(queue, msg) == << msg >> \o queue

\* tx.send(msg).await: the message joins the end of the channel
Send(queue, msg) == Append(queue, msg)

\* a sender's send completes once the channel has room; nothing else changes
Sends(msg) ==
    /\ Len(rx_queue) < ChannelCap
    /\ rx_queue' = Send(rx_queue, msg)
    /\ UNCHANGED << pc, event, appVars, loopVars, taskVars, fnVars, ioVars, received >>

\* 1. Input Event Task: the events of the stream, one after the other
InputTask(e) ==
    /\ input_sent < MaxInputs
    /\ input_sent' = input_sent + 1
    /\ Sends(Msg(e.kind, input_sent + 1, e.arg))

\* 2. Spotify Polling Task
PollingTask(info) ==
    /\ pc /= "done"
    /\ Sends(Msg("TrackUpdate", 0, info))
    /\ UNCHANGED input_sent

\* 4. Animation Tick Task
TickTask ==
    /\ pc /= "done"
    /\ Sends(Msg("Tick", 0, None))
    /\ UNCHANGED input_sent

\* messages of fetch task `task` that are in the channel or with the loop
InChannel(kind, task) ==
    Cardinality({ i \in 1 .. Len(rx_queue) : rx_queue[i].kind = kind /\ rx_queue[i].arg.task = task })
    + (IF IsSome(received) /\ Unwrap(received).kind = kind /\ Unwrap(received).arg.task = task
       THEN 1 ELSE 0)

\* a lyrics task whose fetch returned Ok sends its result, once
LyricsFetchTask(task, lyrics) ==
    /\ InChannel("LyricsUpdate", task) < CopiesIn(task, lyrics_tasks)
    /\ Sends(Msg("LyricsUpdate", 0, [task |-> task, data |-> lyrics]))
    /\ UNCHANGED input_sent

\* an artwork task sends Loaded(img) or Failed, once
ArtworkFetchTask(task, data) ==
    /\ InChannel("ArtworkUpdate", task) < CopiesIn(task, artwork_tasks)
    /\ Sends(Msg("ArtworkUpdate", 0, [task |-> task, data |-> data]))
    /\ UNCHANGED input_sent

\* rx.recv().await returns the oldest message of the channel
Recv ==
    /\ pc = "recv"
    /\ IsNone(received)
    /\ rx_queue /= << >>
    /\ received' = Some(Head(rx_queue))
    /\ rx_queue' = Tail(rx_queue)
    /\ UNCHANGED << pc, event, appVars, loopVars, taskVars, fnVars, ioVars, input_sent >>

\* match event: the arm of the message received
Matches(kind) == IsSome(received) /\ Unwrap(received).kind = kind

HandleMouseDown ==
    /\ Matches("MouseDown")
    /\ MouseDown(Unwrap(Unwrap(received).arg))

HandleScrollDown ==
    /\ Matches("ScrollDown")
    /\ ScrollDown

HandleScrollUp ==
    /\ Matches("ScrollUp")
    /\ ScrollUp

HandleTrackUpdate ==
    /\ Matches("TrackUpdate")
    /\ TrackUpdate(Unwrap(received).arg)

HandleLyricsUpdate ==
    /\ Matches("LyricsUpdate")
    /\ LyricsUpdate(Unwrap(received).arg.task, Unwrap(received).arg.data)

HandleArtworkUpdate ==
    /\ Matches("ArtworkUpdate")
    /\ ArtworkUpdate(Unwrap(received).arg.task, Unwrap(received).arg.data)

HandleTick ==
    /\ Matches("Tick")
    /\ Tick

ChannelNext ==
    \/ LoopTop
    \/ \E e \in InputEvents : InputTask(e)
    \/ \E info \in PolledTracks : PollingTask(info)
    \/ TickTask
    \/ \E task \in LyricsTasks, lyrics \in FetchedLyrics : LyricsFetchTask(task, lyrics)
    \/ \E task \in ArtworkTasks, data \in FetchedArtwork : ArtworkFetchTask(task, data)
    \/ Recv
    \/ HandleMouseDown
    \/ HandleScrollDown
    \/ HandleScrollUp
    \/ HandleTrackUpdate
    \/ HandleLyricsUpdate
    \/ HandleArtworkUpdate
    \/ HandleTick

ChannelSpec == Init /\ [][ChannelNext]_vars

(***************************************************************************)

(* Function-level specification of the natural index: a timeline and two   *)
(* playback positions t1 <= t2 are drawn, and each place of the program    *)
(* that computes the index is applied to both.                             *)
(***************************************************************************)
\* lines of the longest timeline drawn
MaxLines == 3
TestStamps == {1500, 3000, 4500}
TestPositions == {0, 1500, 2000, 3000, 4500, 6000}

\* non-empty timelines in non-decreasing timestamp order (a parsed timeline is never empty)
TestTimelines ==
    { [i \in 1 .. Len(t) |-> Line(t[i], "t")] :
        t \in { u \in UNION { [1 .. n -> TestStamps] : n \in 1 .. MaxLines } :
                  \A i \in 1 .. Len(u) - 1 : u[i] <= u[i + 1] } }

NaturalInit ==
    /\ pc = "fn"
    /\ event = "none"
    /\ app_is_running = TRUE
    /\ app_track = None
    /\ app_lyrics = None
    /\ app_artwork = ArtIdle
    /\ app_lyrics_offset = None
    /\ app_last_scroll_time = None
    /\ app_lyrics_hitboxes = << >>
    /\ last_track_id = ""
    /\ last_artwork_url = None
    /\ lyrics_tasks = EmptyBag
    /\ artwork_tasks = EmptyBag
    /\ lyrics_area = Some(ViewHeight)
    /\ mouse_row = None
    /\ player_seek = None
    /\ rx_queue = << >>
    /\ received = None
    /\ input_sent = 0
    /\ fn_args \in { [lyrics |-> l, t1 |-> a, t2 |-> b] :
                       l \in TestTimelines,
                       a \in TestPositions,
                       b \in TestPositions }
    /\ fn_args.t1 <= fn_args.t2
    /\ fn_rets = [seed |-> None, tick |-> None, ui |-> None]

Computed(place, v1, v2) ==
    /\ IsNone(fn_rets[place])
    /\ fn_rets' = [fn_rets EXCEPT ![place] = Some(<< v1, v2 >>)]
    /\ UNCHANGED << pc, event, appVars, loopVars, taskVars, ioVars, chanVars, fn_args >>

\* the seeding of ScrollDown / ScrollUp
SeedScroll ==
    /\ pc = "fn"
    /\ Computed("seed", current_idx(fn_args.lyrics, fn_args.t1), current_idx(fn_args.lyrics, fn_args.t2))

\* the target of a Tick
TickTarget ==
    /\ pc = "fn"
    /\ Computed("tick", target_idx(fn_args.lyrics, fn_args.t1), target_idx(fn_args.lyrics, fn_args.t2))

\* the line a render pass highlights
RenderHighlight ==
    /\ pc = "fn"
    /\ Computed("ui", ui_current_idx(fn_args.lyrics, fn_args.t1), ui_current_idx(fn_args.lyrics, fn_args.t2))

NaturalNext == SeedScroll \/ TickTarget \/ RenderHighlight

NaturalSpec == NaturalInit /\ [][NaturalNext]_vars

\* where the index is computed
Places == {"seed", "tick", "ui"}

\* the natural index of the specification: the greatest line index whose timestamp is <= p,
\* 0 if no line qualifies
NaturalIndex(lyrics, p) ==
    LET reached == { i \in 0 .. Len(lyrics) - 1 : lyrics[i + 1].timestamp_ms <= p }
    IN  IF reached = {} THEN 0 ELSE CHOOSE i \in reached : \A j \in reached : j <= i

(***************************************************************************)
(* LyricsFetcher::parse and parse_timestamp on strings, a string being the *)
(* sequence of its characters.                                             *)
(***************************************************************************)
Digits == << "0", "1", "2", "3", "4", "5", "6", "7", "8", "9" >>
IsDigit(c) == \E i \in 1 .. Len(Digits) : Digits[i] = c
DigitValue(c) == (CHOOSE i \in 1 .. Len(Digits) : Digits[i] = c) - 1

\* str::find(ch): Option of the 0-based index of the first occurrence
Find(s, ch) ==
    LET hits == { i \in 1 .. Len(s) : s[i] = ch }
    IN  IF hits = {} THEN None ELSE Some((CHOOSE i \in hits : \A j \in hits : i <= j) - 1)

\* &s[a..b] and &s[a..]
Slice(s, a, b) == SubSeq(s, a + 1, b)
SliceFrom(s, a) == SubSeq(s, a + 1, Len(s))

\* str::split(ch): the pieces between the occurrences, at least one piece
RECURSIVE Split(_, _)
Split(s, ch) ==
    LET at == Find(s, ch)
    IN  IF IsNone(at) THEN << s >>
        ELSE << Slice(s, 0, Unwrap(at)) >> \o Split(SliceFrom(s, Unwrap(at) + 1), ch)

\* str::lines(): split at "\n", without a final empty line
Lines(raw) ==
    LET pieces == Split(raw, "\n")
    IN  IF pieces[Len(pieces)] = << >> THEN SubSeq(pieces, 1, Len(pieces) - 1) ELSE pieces

\* str::trim()
RECURSIVE TrimStart(_)
TrimStart(s) == IF s /= << >> /\ Head(s) = " " THEN TrimStart(Tail(s)) ELSE s
RECURSIVE TrimEnd(_)
TrimEnd(s) == IF s /= << >> /\ s[Len(s)] = " " THEN TrimEnd(SubSeq(s, 1, Len(s) - 1)) ELSE s
Trim(s) == TrimEnd(TrimStart(s))

RECURSIVE DecimalValue(_)
DecimalValue(d) ==
    IF d = << >> THEN 0
    ELSE DecimalValue(SubSeq(d, 1, Len(d) - 1)) * 10 + DigitValue(d[Len(d)])

\* str::parse::<u64>().ok(): an optional "+", then one or more digits (the numbers of the
\* transcripts drawn here stay far below u64::MAX)
ParseU64(s) ==
    LET body == IF s /= << >> /\ Head(s) = "+" THEN Tail(s) ELSE s
    IN  IF body = << >> \/ (\E i \in 1 .. Len(body) : ~IsDigit(body[i])) THEN None
        ELSE Some(DecimalValue(body))

\* the fraction of a timestamp: two characters are centiseconds, otherwise the value verbatim
Fraction(sec_parts) ==
    IF Len(sec_parts) > 1
    THEN LET frac == sec_parts[2]
             n == ParseU64(frac)
         IN  IF IsNone(n) THEN None
             ELSE Some(IF Len(frac) = 2 THEN Unwrap(n) * 10 ELSE Unwrap(n))
    ELSE Some(0)

parse_timestamp(ts) ==
    LET parts == Split(ts, ":")
    IN  IF Len(parts) /= 2 THEN None
        ELSE LET min == ParseU64(parts[1])
                 sec_parts == Split(parts[2], ".")
                 sec == ParseU64(sec_parts[1])
                 ms == Fraction(sec_parts)
             IN  IF IsNone(min) \/ IsNone(sec) \/ IsNone(ms) THEN None
                 ELSE Some(Unwrap(min) * 60000 + Unwrap(sec) * 1000 + Unwrap(ms))

\* one iteration of the loop over raw.lines(): the LyricLine pushed, if any
ParseLine(line) ==
    LET idx == Find(line, "]")
    IN  IF IsSome(idx) /\ line /= << >> /\ Head(line) = "["
        THEN LET ms == parse_timestamp(Slice(line, 1, Unwrap(idx)))
             IN  IF IsSome(ms)
                 THEN << Line(Unwrap(ms), Trim(SliceFrom(line, Unwrap(idx) + 1))) >>
                 ELSE << >>
        ELSE << >>

RECURSIVE ParseLines(_)
ParseLines(ls) == IF ls = << >> THEN << >> ELSE ParseLine(Head(ls)) \o ParseLines(Tail(ls))

\* a parse that returns whatever it collected
ParseResult_AlwaysSome(lines) == Some(lines)

\* if lines.is_empty() { None } else { Some(lines) }
ParseResult(lines) == IF lines = << >> THEN None ELSE Some(lines)

\* data.synced_lyrics.or(data.plain_lyrics)
Or(a, b) == IF IsSome(a) THEN a ELSE b

parse(data) ==
    LET raw == Or(data.synced_lyrics, data.plain_lyrics)
    IN  IF IsNone(raw) THEN None ELSE ParseResult(ParseLines(Lines(Unwrap(raw))))

(***************************************************************************)
(* Function-level specification of the parser: a response of the lyrics    *)
(* service is drawn, parse is applied to it, parse_timestamp to the tag of  *)
(* each tagged line, and the time format of the music card to each         *)
(* timestamp accepted.                                                     *)
(***************************************************************************)
\* lines of the longest transcript drawn
MaxTranscript == 2

TestLines ==
    {
      << "[", "0", ":", "0", "3", ".", "0", "0", "]", "a" >>,          \* two-digit fraction: 3000 ms
      << "[", "0", ":", "0", "1", ".", "5", "0", "]", "b" >>,          \* an earlier timestamp than the line before
      << "[", "1", ":", "0", "2", ".", "5", "]", " ", "c", " " >>,     \* one-digit fraction, text between spaces
      << "[", "0", ":", "7", "5", "]", "d" >>,                         \* no fraction, 75 seconds
      << "[", "x", ":", "0", "1", "]", "e" >>,                         \* minutes that are no number
      << "[", "0", ":", "0", "1", ".", "5", ".", "7", "]", "f" >>,     \* two fraction separators
      << "[", "+", "0", ":", "0", "2", "]", "h" >>,                    \* a sign before the minutes
      << "[", "0", ":", "0", "1", ".", "5", "0", "0", "]", "i" >>,     \* three-digit fraction
      << "[", "1", "2", "]", "j" >>,                                   \* a tag without a colon
      << "[", "0", ":", "1", ":", "2", "]", "k" >>,                    \* a tag with two colons
      << "g" >>,                                                       \* no tag
      << "[", "0", ":", "0", "2" >>,                                   \* no closing bracket
      << "a", "[", "0", ":", "0", "2", "]", "b" >>,                    \* a tag that is not at the start of the line
      << >>                                                            \* an empty line
    }

\* a transcript: its lines, each followed by a line feed but the last
RECURSIVE Transcript(_)
Transcript(ls) ==
    IF ls = << >> THEN << >>
    ELSE IF Len(ls) = 1 THEN Head(ls)
    ELSE Head(ls) \o << "\n" >> \o Transcript(Tail(ls))

TestTranscripts ==
    { Transcript(ls) : ls \in UNION { [1 .. n -> TestLines] : n \in 0 .. MaxTranscript } }

\* LrclibResponse: synced lyrics, plain lyrics, both or none
TestResponses ==
    { [synced_lyrics |-> Some(t), plain_lyrics |-> None] : t \in TestTranscripts }
    \cup { [synced_lyrics |-> None, plain_lyrics |-> Some(t)] : t \in TestTranscripts }
    \cup { [synced_lyrics |-> Some(t), plain_lyrics |-> Some(<< "g" >>)] : t \in TestTranscripts }
    \cup { [synced_lyrics |-> None, plain_lyrics |-> None] }

\* the loop of main has not started
LoopIdle ==
    /\ event = "none"
    /\ app_is_running = TRUE
    /\ app_track = None
    /\ app_lyrics = None
    /\ app_artwork = ArtIdle
    /\ app_lyrics_offset = None
    /\ app_last_scroll_time = None
    /\ app_lyrics_hitboxes = << >>
    /\ last_track_id = ""
    /\ last_artwork_url = None
    /\ lyrics_tasks = EmptyBag
    /\ artwork_tasks = EmptyBag
    /\ lyrics_area = Some(ViewHeight)
    /\ mouse_row = None
    /\ player_seek = None
    /\ rx_queue = << >>
    /\ received = None
    /\ input_sent = 0

ParseInit ==
    /\ pc = "fn"
    /\ LoopIdle
    /\ fn_args \in TestResponses
    /\ fn_rets = [parse |-> None, stamps |-> None, times |-> None]

\* fn_rets[place] is computed, once
Returned(place, value) ==
    /\ IsNone(fn_rets[place])
    /\ fn_rets' = [fn_rets EXCEPT ![place] = Some(value)]
    /\ UNCHANGED << pc, event, appVars, loopVars, taskVars, ioVars, chanVars, fn_args >>

Parse ==
    /\ pc = "fn"
    /\ Returned("parse", parse(fn_args))

\* the text between "[" and the first "]" of each line that has both, in transcript order
RECURSIVE Tags(_)
Tags(ls) ==
    IF ls = << >> THEN << >>
    ELSE LET line == Head(ls)
             idx == Find(line, "]")
         IN  (IF IsSome(idx) /\ line /= << >> /\ Head(line) = "["
              THEN << Slice(line, 1, Unwrap(idx)) >> ELSE << >>) \o Tags(Tail(ls))

\* the tags of the transcript parse reads
TagsOf(data) ==
    LET raw == Or(data.synced_lyrics, data.plain_lyrics)
    IN  IF IsNone(raw) THEN << >> ELSE Tags(Lines(Unwrap(raw)))

ParseTimestamps ==
    /\ pc = "fn"
    /\ Returned("stamps", [i \in 1 .. Len(TagsOf(fn_args)) |-> parse_timestamp(TagsOf(fn_args)[i])])

RECURSIVE DecimalDigits(_)
DecimalDigits(n) ==
    IF n < 10 THEN << Digits[n + 1] >> ELSE DecimalDigits(n \div 10) \o << Digits[(n % 10) + 1] >>

\* {:02}
Format02(n) == IF n < 10 THEN << "0" >> \o DecimalDigits(n) ELSE DecimalDigits(n)

\* format!("{:02}:{:02} ..", position_ms / 60000, (position_ms % 60000) / 1000, ..)
time_str(position_ms) ==
    Format02(position_ms \div 60000) \o << ":" >> \o Format02((position_ms % 60000) \div 1000)

FormatTimes ==
    /\ pc = "fn"
    /\ IsSome(fn_rets.stamps)
    /\ Returned("times", [i \in 1 .. Len(Unwrap(fn_rets.stamps)) |->
                            LET ms == Unwrap(fn_rets.stamps)[i]
                            IN  IF IsSome(ms) THEN Some(time_str(Unwrap(ms))) ELSE None])

ParseNext == Parse \/ ParseTimestamps \/ FormatTimes

ParseSpec == ParseInit /\ [][ParseNext]_vars

(***************************************************************************)
(* The two places that turn a bitmap into rows of half-block cells:        *)
(* ArtworkRenderer::render_from_url and the artwork of ui::ui. A pixel of   *)
(* the resized image is its coordinates << x, y >>, a cell the pair of the *)
(* pixels it folds.                                                        *)
(***************************************************************************)
\* Result<T>
Ok(v) == [ok |-> TRUE, value |-> v]
Err == [ok |-> FALSE]

\* one row of cells: for x in 0..width, p1 = (x, y) and p2 = (x, y + 1) if that row of
\* pixels exists, p1 otherwise; a row with at least one cell
RowOfCells_NeverEmpty(width, y, pixel_rows) ==
    [x \in 1 .. Max(width, 1) |-> [fg |-> << x - 1, y >>, bg |-> << x - 1, y >>]]

\* a row whose bottom pixels are always taken from the row of pixels below
RowOfCells_ReadsBelow(width, y, pixel_rows) ==
    [x \in 1 .. width |-> [fg |-> << x - 1, y >>, bg |-> << x - 1, y + 1 >>]]

RowOfCells(width, y, pixel_rows) ==
    [x \in 1 .. width |->
        [fg |-> << x - 1, y >>,
         bg |-> IF y + 1 < pixel_rows THEN << x - 1, y + 1 >> ELSE << x - 1, y >>]]

\* for y in (0..pixel_rows).step_by(2): one row of cells per two rows of pixels
RowsOfCells(width, pixel_rows) ==
    [r \in 1 .. ((pixel_rows + 1) \div 2) |-> RowOfCells(width, 2 * (r - 1), pixel_rows)]

\* img.resize_exact(width, height * 2, ..): an image of exactly these dimensions
resize_exact(img, nwidth, nheight) == [width |-> nwidth, height |-> nheight]

\* ArtworkRenderer::render_from_url, from the bytes fetched on: img is the outcome of
\* the fetch and of image::load_from_memory
render_from_url(img, width, height) ==
    IF ~img.ok THEN Err
    ELSE LET resized == resize_exact(img.value, width, height * 2)
         IN  Ok(RowsOfCells(resized.width, resized.height))

\* f64::round of a / b, half away from zero, for a >= 0 and b > 0
RoundDiv(a, b) == (2 * a + b) \div (2 * b)

\* raw_image.resize(nwidth, nheight, ..): the aspect ratio is kept and the image is scaled
\* to the largest size that fits in nwidth x nheight, no dimension below 1
resize(img, nwidth, nheight) ==
    IF nwidth * img.height <= nheight * img.width
    THEN [width |-> Max(nwidth, 1), height |-> Max(RoundDiv(img.height * nwidth, img.width), 1)]
    ELSE [width |-> Max(RoundDiv(img.width * nheight, img.height), 1), height |-> Max(nheight, 1)]

\* the lines ui::ui gives the artwork widget for an artwork_area of available_width x
\* available_height characters: none when the area is degenerate
ui_artwork(raw_image, available_width, available_height) ==
    LET target_width == available_width
        target_height == available_height * 2
    IN  IF target_width > 0 /\ target_height > 0
        THEN LET resized == resize(raw_image, target_width, target_height)
                 img_rows == (resized.height + 1) \div 2
                 padding_top == SatSub(available_height, img_rows) \div 2
             IN  [i \in 1 .. padding_top |-> << >>] \o RowsOfCells(resized.width, resized.height)
        ELSE << >>

\* widest and tallest grid asked for, in characters, and longest side of a source bitmap
MaxCols == 2
MaxRows == 2
MaxSide == 3

\* what the fetch and the decoder deliver: a bitmap of some size, or a failure
TestBitmaps ==
    {Err} \cup { Ok([width |-> w, height |-> h]) : w \in 1 .. MaxSide, h \in 1 .. MaxSide }

RasterInit ==
    /\ pc = "fn"
    /\ LoopIdle
    /\ fn_args \in { [img |-> b, width |-> w, height |-> h] :
                       b \in TestBitmaps, w \in 0 .. MaxCols, h \in 0 .. MaxRows }
    /\ fn_rets = [render |-> None, ui |-> None]

RenderFromUrl ==
    /\ pc = "fn"
    /\ Returned("render", render_from_url(fn_args.img, fn_args.width, fn_args.height))

\* the render pass draws a decoded image only
UiArtwork ==
    /\ pc = "fn"
    /\ fn_args.img.ok
    /\ Returned("ui", Ok(ui_artwork(fn_args.img.value, fn_args.width, fn_args.height)))

RasterNext == RenderFromUrl \/ UiArtwork

RasterSpec == RasterInit /\ [][RasterNext]_vars

(***************************************************************************)
(* The artwork of ui::ui over consecutive render passes. main draws once   *)
(* per loop iteration; the pass reads app.artwork and the artwork area the *)
(* layout gives it, and writes no field of App.                            *)
(***************************************************************************)
\* render passes in a row
MaxFrames == 3

\* the bitmaps an ArtworkUpdate can have installed, each with the URL it was fetched from
TestArtworks == { [url |-> "u1", width |-> 1, height |-> 2],
                  [url |-> "u2", width |-> 2, height |-> 2] }

\* artwork_area.width and artwork_area.height of a pass: a card of 2 x 2 characters, the
\* same card one column narrower after a terminal resize, and a card of no width
ArtworkAreas == { << 2, 2 >>, << 1, 2 >>, << 0, 2 >> }

\* what one pass finds: app.artwork (None while no bitmap is installed) and the area
Frames == { [artwork |-> a, width |-> d[1], height |-> d[2]] :
              a \in {None} \cup { Some(b) : b \in TestArtworks }, d \in ArtworkAreas }

\* the calls of raw_image.resize one pass makes: one whenever a bitmap is installed and
\* the area is not degenerate
ui_resizes(artwork, available_width, available_height) ==
    IF IsSome(artwork) /\ available_width > 0 /\ available_height * 2 > 0
    THEN << [img |-> Unwrap(artwork), nwidth |-> available_width, nheight |-> available_height * 2] >>
    ELSE << >>

\* the artwork lines one pass hands to the widget
ui_lines(artwork, available_width, available_height) ==
    IF IsSome(artwork) THEN ui_artwork(Unwrap(artwork), available_width, available_height)
    ELSE << >>

DrawInit ==
    /\ pc = "fn"
    /\ LoopIdle
    /\ fn_args \in [1 .. MaxFrames -> Frames]
    /\ fn_rets = << >>

\* terminal.draw(|f| ui::ui(f, &mut app)) of the next loop iteration, artwork part
DrawArtwork ==
    /\ pc = "fn"
    /\ Len(fn_rets) < Len(fn_args)
    /\ LET frame == fn_args[Len(fn_rets) + 1]
       IN  fn_rets' = Append(fn_rets,
                             [resizes |-> ui_resizes(frame.artwork, frame.width, frame.height),
                              lines |-> ui_lines(frame.artwork, frame.width, frame.height)])
    /\ UNCHANGED << pc, event, appVars, loopVars, taskVars, ioVars, chanVars, fn_args >>

DrawNext == DrawArtwork

DrawSpec == DrawInit /\ [][DrawNext]_vars

(***************************************************************************)

(* Function-level specification of the window of the lyrics card: a        *)
(* timeline, a manual offset (or none), a track (or none) and the height   *)
(* of the card are drawn, and one render pass computes the window and      *)
(* takes its lines.                                                        *)
(***************************************************************************)
\* end_idx - start_idx in usize: the difference, or on underflow a panic (overflow checks
\* on) or the wrapped value a - b + 2^64, beyond every length (overflow checks off)
usize_sub(a, b) ==
    IF a >= b
    THEN {Ok(a - b)}
    ELSE {[ok |-> FALSE, panic |-> "attempt to subtract with overflow"],
          [ok |-> TRUE, value |-> a - b, plus |-> "2^64"]}

\* lyrics.iter().enumerate().skip(start).take(n): the indices the iterator yields
skip_take(lyrics, start, n) ==
    LET last == IF "plus" \in DOMAIN n THEN Len(lyrics) ELSE Min(start + n.value, Len(lyrics))
    IN  { i \in start .. last - 1 : i >= 0 }

\* the offset is none or up to the last line of the longest timeline, also when a shorter
\* timeline has been installed since; the track is none or at some position
WindowInit ==
    /\ pc = "fn"
    /\ LoopIdle
    /\ fn_args \in { [lyrics |-> l, offset |-> o, track |-> t, height |-> h] :
                       l \in TestTimelines,
                       o \in {None} \cup { Some(i) : i \in 0 .. MaxLines - 1 },
                       t \in {None} \cup { Some(TrackInfo(Song("a", "bc", "Spotify", Some("u1")), p)) :
                                              p \in TestPositions },
                       h \in 0 .. ViewHeight }
    /\ fn_rets = [window |-> None]

\* the lyrics card of one pass, from `if let Some(lyrics) = &app.lyrics` on
LyricsCard ==
    /\ pc = "fn"
    /\ LET start == start_idx(fn_args.lyrics, fn_args.offset, fn_args.track, fn_args.height)
           end == end_idx(fn_args.lyrics, fn_args.offset, fn_args.track, fn_args.height)
       IN  \E n \in usize_sub(end, start) :
               Returned("window",
                        [start |-> start, end |-> end, take |-> n,
                         lines |-> IF n.ok THEN skip_take(fn_args.lyrics, start, n) ELSE {}])

WindowSpec == WindowInit /\ [][LyricsCard]_vars

(***************************************************************************)

(* Function-level specification of the left click: the rectangles the      *)
(* render passes have left in the App, a track (or none), a manual offset  *)
(* (or none) and the cell clicked are drawn; one MouseEventKind::Down of   *)
(* the left button is handled. The calls to the player are recorded in     *)
(* order, a seek with its target in seconds as an exact fraction.          *)
(***************************************************************************)
\* ratatui::layout::Rect
Rect(x, y, width, height) == [x |-> x, y |-> y, width |-> width, height |-> height]

\* Rect::contains: the cell lies within the left/top edge (inclusive) and the right/bottom
\* edge (exclusive)
contains(rect, x, y) ==
    /\ x >= rect.x /\ x < rect.x + rect.width
    /\ y >= rect.y /\ y < rect.y + rect.height

\* the three buttons the render pass lays out around the middle of the controls row
ControlButtons(area) ==
    LET mid_x == area.x + area.width \div 2
        y == area.y
    IN  [prev_btn |-> Rect(SatSub(mid_x, 13), y, 7, 1),
         play_btn |-> Rect(SatSub(mid_x, 3), y, 7, 1),
         next_btn |-> Rect(mid_x + 7, y, 7, 1)]

\* the hit-test table of a render pass whose card starts at row y: one rectangle per line
LineHitboxes(x, y, width, stamps) ==
    [k \in 1 .. Len(stamps) |-> [rect |-> Rect(x, y + (k - 1), width, 1), timestamp |-> stamps[k]]]

\* a value of f64 seconds, as the exact fraction num / den
Seconds(num, den) == [num |-> num, den |-> den]

\* a call of the player: prev, play_pause, next without argument, seek with its seconds
Call(op, seconds) == [op |-> op, seconds |-> seconds]

\* the first hitbox that contains the cell (1-based), 0 if none does
first_hit(hitboxes, x, y) ==
    LET hits == { k \in 1 .. Len(hitboxes) : contains(hitboxes[k].rect, x, y) }
    IN  IF hits = {} THEN 0 ELSE CHOOSE k \in hits : \A j \in hits : k <= j

\* a column taken as it is, from the left edge of the terminal
relative_x_Absolute(x, rect) == x

\* x.saturating_sub(self.progress_rect.x)
relative_x(x, rect) == SatSub(x, rect.x)

\* (track.duration_ms as f64 / 1000.0) * (relative_x as f64 / width as f64)
target_sec(track, rect, x) ==
    Seconds(track.duration_ms * relative_x(x, rect), 1000 * Max(rect.width, 1))

\* the seek of the progress bar, made for a track of known duration only
progress_seek(track, rect, x) ==
    IF IsSome(track) /\ Unwrap(track).duration_ms > 0
    THEN << Call("seek", target_sec(Unwrap(track), rect, x)) >>
    ELSE << >>

\* a handler that asks every rectangle in turn
handle_click_All(app, x, y) ==
    (IF contains(app.prev_btn, x, y) THEN << Call("prev", None) >> ELSE << >>)
    \o (IF contains(app.play_btn, x, y) THEN << Call("play_pause", None) >> ELSE << >>)
    \o (IF contains(app.next_btn, x, y) THEN << Call("next", None) >> ELSE << >>)
    \o (IF contains(app.progress_rect, x, y) THEN progress_seek(app.track, app.progress_rect, x) ELSE << >>)

\* App::handle_click: the calls it makes to the player
handle_click(app, x, y) ==
    IF contains(app.prev_btn, x, y) THEN << Call("prev", None) >>
    ELSE IF contains(app.play_btn, x, y) THEN << Call("play_pause", None) >>
    ELSE IF contains(app.next_btn, x, y) THEN << Call("next", None) >>
    ELSE IF contains(app.progress_rect, x, y) THEN progress_seek(app.track, app.progress_rect, x)
    ELSE << >>

\* the last column of the terminal
MaxCol == 30

\* The buttons are as App::new left them (Rect::default()) or as the layout gave them: in a
\* cramped row they overlap. The progress bar is as the last pass with a track left it;
\* after a resize it may lie on the row of the controls. The hit-test table is empty or
\* holds two lines, below the controls or (the controls being stale) over them. The track
\* is none, or of unknown (0) or known duration.
ClickInit ==
    /\ pc = "fn"
    /\ LoopIdle
    /\ fn_args \in { [prev_btn |-> b.prev_btn, play_btn |-> b.play_btn, next_btn |-> b.next_btn,
                      progress_rect |-> p, lyrics_hitboxes |-> h, track |-> t,
                      lyrics_offset |-> o, x |-> x, y |-> y] :
                       b \in {[prev_btn |-> Rect(0, 0, 0, 0), play_btn |-> Rect(0, 0, 0, 0),
                               next_btn |-> Rect(0, 0, 0, 0)]}
                               \cup { ControlButtons(Rect(0, 1, w, 1)) : w \in {0, 12, 30} },
                       p \in { Rect(x0, y0, w, 1) : x0 \in {0, 4}, y0 \in {0, 1}, w \in {0, 10} },
                       h \in { << >> } \cup { LineHitboxes(0, y0, MaxCol, << 1500, 3000 >>) : y0 \in {0, 2} },
                       t \in {None} \cup { Some([duration_ms |-> d, position_ms |-> 0]) : d \in {0, 3000} },
                       o \in {None, Some(1)},
                       x \in 0 .. MaxCol, y \in 0 .. 3 }
    /\ fn_rets = [click |-> None]

\* MouseEventKind::Down(MouseButton::Left): the first lyric line hit is sought and the
\* offset dropped; only without such a hit is the click passed to handle_click
MouseLeftDown ==
    /\ pc = "fn"
    /\ LET hit == first_hit(fn_args.lyrics_hitboxes, fn_args.x, fn_args.y)
       IN  IF hit > 0
           THEN LET timestamp == fn_args.lyrics_hitboxes[hit].timestamp
                IN  Returned("click",
                             [hit_lyrics |-> TRUE,
                              calls |-> << Call("seek", Seconds(timestamp, 1000)) >>,
                              track |-> SeekTo(fn_args.track, timestamp),
                              lyrics_offset |-> None])
           ELSE Returned("click",
                         [hit_lyrics |-> FALSE,
                          calls |-> handle_click(fn_args, fn_args.x, fn_args.y),
                          track |-> fn_args.track,
                          lyrics_offset |-> fn_args.lyrics_offset])

ClickSpec == ClickInit /\ [][MouseLeftDown]_vars

(***************************************************************************)

(* The loop under fair scheduling: each iteration reaches its await, the   *)
(* clock advances, and the 50 ms interval task's ticks keep being          *)
(* received from the FIFO channel.                                         *)
(***************************************************************************)
LiveSpec == Spec /\ WF_vars(LoopTop) /\ SF_vars(TimePasses) /\ SF_vars(Tick)

(***************************************************************************)
(* Properties.                                                             *)
(***************************************************************************)
Abs(x) == IF x >= 0 THEN x ELSE 0 - x

\* the event handled in this step is the result of lyrics task `task`
LyricsResultOf(task) ==
    event' = "LyricsUpdate" /\ BagIn(task, lyrics_tasks) /\ lyrics_tasks' = Finish(lyrics_tasks, task)

\* the event handled in this step is the result of artwork task `task`
ArtworkResultOf(task) ==
    event' = "ArtworkUpdate" /\ BagIn(task, artwork_tasks) /\ artwork_tasks' = Finish(artwork_tasks, task)

\* C1: the result of a lyrics fetch that was started for a track other than the current
\* one is discarded, that is, it leaves the installed timeline as it was
C1_StaleLyricsDiscarded ==
    [][\A task \in LyricsTasks :
         ( /\ LyricsResultOf(task)
           /\ IsSome(app_track)
           /\ TrackId(task.track) /= TrackId(Unwrap(app_track)) )
         => app_lyrics' = app_lyrics]_vars

\* an artwork task's source is current: its URL is the last one fetched or, for the
\* URL-less fallback, its track is the last one seen
ArtworkCurrent(task) ==
    IF IsSome(task.url) THEN last_artwork_url = task.url
    ELSE last_track_id = TrackId(task.track)

\* C2: the result of an artwork fetch whose source is no longer current (track or URL
\* changed, or session ended) is discarded, that is, it leaves the artwork state as it was
C2_StaleArtworkDiscarded ==
    [][\A task \in ArtworkTasks :
         (ArtworkResultOf(task) /\ ~ArtworkCurrent(task)) => app_artwork' = app_artwork]_vars

\* C3: the event-handling step that installs a track whose identity differs from the last
\* seen one leaves, in that same step, no timeline, no manual offset and no hold timer
C3_TrackChangeResetsAtOnce ==
    [][( /\ event' = "TrackUpdate"
         /\ IsSome(app_track')
         /\ TrackId(Unwrap(app_track')) /= last_track_id )
       => ( /\ IsNone(app_lyrics')
            /\ IsNone(app_lyrics_offset')
            /\ IsNone(app_last_scroll_time')
            /\ last_track_id' = TrackId(Unwrap(app_track')) )]_vars

\* C3 witness: the render pass before the event drew from a manual offset on the last line
\* of the three-line timeline, and the event was a track change: everything is cleared
C3_Witness ==
    /\ event = "TrackUpdate"
    /\ app_lyrics_hitboxes = << 4500 >>
    /\ IsSome(app_track)
    /\ BagIn(LyricsTask(Unwrap(app_track)), lyrics_tasks)
    /\ IsNone(app_lyrics)
    /\ IsNone(app_lyrics_offset)
    /\ IsNone(app_last_scroll_time)

\* C4: a manual offset lies in [0, line_count - 1] of the installed timeline
C4_OffsetWithinTimeline ==
    (IsSome(app_lyrics_offset) /\ IsSome(app_lyrics))
    => ( /\ 0 <= Unwrap(app_lyrics_offset)
         /\ Unwrap(app_lyrics_offset) <= Max(0, Len(Unwrap(app_lyrics)) - 1) )

\* the C5 rule for a scroll step out of a manual offset
ScrollRule ==
    LET off == Unwrap(app_lyrics_offset)
        n == Len(Unwrap(app_lyrics))
    IN  /\ event' = "ScrollDown" => app_lyrics_offset' = Some(Min(off + 1, n - 1))
        /\ event' = "ScrollUp" => app_lyrics_offset' = Some(Max(off - 1, 0))

C6_NaturalIndexEverywhere ==
    \A place \in Places :
        IsSome(fn_rets[place]) =>
            Unwrap(fn_rets[place]) = << NaturalIndex(fn_args.lyrics, fn_args.t1),
                                        NaturalIndex(fn_args.lyrics, fn_args.t2) >>

\* C7: at every place that computes it, the natural index is monotone in the position
C7_NaturalIndexMonotone ==
    \A place \in Places :
        IsSome(fn_rets[place]) => Unwrap(fn_rets[place])[1] <= Unwrap(fn_rets[place])[2]

\* the hold timer has run for 3000 ms since the last scroll input
HoldElapsed ==
    IsSome(app_last_scroll_time) /\ Unwrap(app_last_scroll_time) >= ScrollHoldSecs

C9_TicksConvergeToNaturalIndex ==
    [][( /\ event' = "Tick"
         /\ IsSome(app_lyrics_offset) /\ IsNone(app_last_scroll_time)
         /\ IsSome(app_lyrics) /\ IsSome(app_track) )
       => LET off == Unwrap(app_lyrics_offset)
              n == NaturalIndex(Unwrap(app_lyrics), Unwrap(app_track).position_ms)
          IN  IF off = n THEN IsNone(app_lyrics_offset')
              ELSE /\ IsSome(app_lyrics_offset')
                   /\ Abs(Unwrap(app_lyrics_offset') - n) = Abs(off - n) - 1]_vars

\* the state is Manual and the last scroll input is not the event just handled
ManualHeld == IsSome(app_lyrics_offset) /\ app_last_scroll_time /= Some(0)

\* C10: once Manual, the state returns to Auto unless a further scroll input arrives
C10_ManualReturnsToAuto ==
    ManualHeld ~> (IsNone(app_lyrics_offset) \/ app_last_scroll_time = Some(0))

\* the timestamp of the rendered lyric line the click of this step landed on, if any
ClickedLine ==
    IF event' = "MouseDown" /\ IsSome(mouse_row') /\ Unwrap(mouse_row') + 1 <= Len(app_lyrics_hitboxes)
    THEN Some(app_lyrics_hitboxes[Unwrap(mouse_row') + 1])
    ELSE None

\* C11: a click that lands on a rendered lyric line leaves no manual offset, makes the
\* clicked line's timestamp the playback position the natural index is computed from, and
\* issues a seek to that timestamp, whatever the offset and the hold timer were
C11_ClickResyncs ==
    [][IsSome(ClickedLine) =>
         /\ IsNone(app_lyrics_offset')
         /\ track_ms(app_track') = Unwrap(ClickedLine)
         /\ player_seek' = Some(Unwrap(ClickedLine))]_vars

\* C12: a tick that arrives while the state is Auto (no manual offset) leaves the offset,
\* the hold timer, the timeline, the track and the artwork state as they were
C12_TickInAutoIsNoOp ==
    [][(event' = "Tick" /\ IsNone(app_lyrics_offset)) =>
         /\ app_lyrics_offset' = app_lyrics_offset
         /\ app_last_scroll_time' = app_last_scroll_time
         /\ app_lyrics' = app_lyrics
         /\ app_track' = app_track
         /\ app_artwork' = app_artwork]_vars

\* C12 witness: a tick was handled in Auto with the hold timer cleared, a timeline and a
\* track present and the tick's target on the second line, while artwork is loading
C12_Witness ==
    /\ event = "Tick"
    /\ IsNone(app_lyrics_offset)
    /\ IsNone(app_last_scroll_time)
    /\ app_lyrics = Some(TimelineB)
    /\ IsSome(app_track)
    /\ target_idx(TimelineB, Unwrap(app_track).position_ms) = 1
    /\ app_artwork = ArtLoading

\* the visible window of the specification for viewport height h: start is
\* max(0, natural_index - h/2) in Auto and the offset in Manual, end is min(line_count, start + h)
WindowStart(lyrics, offset, track, h) ==
    IF IsSome(offset) THEN Unwrap(offset)
    ELSE Max(0, NaturalIndex(lyrics, track_ms(track)) - h \div 2)

WindowEnd(lyrics, offset, track, h) == Min(Len(lyrics), WindowStart(lyrics, offset, track, h) + h)

\* C13: a render pass of the lyrics card draws exactly the lines of the window
\* (start, end) with start = max(0, natural_index - h/2) in Auto, start = offset in Manual,
\* and end = min(line_count, start + h)
C13_VisibleWindow ==
    [][(pc = "top" /\ pc' = "recv" /\ IsSome(app_lyrics) /\ IsSome(lyrics_area)) =>
         LET l == Unwrap(app_lyrics)
             h == Unwrap(lyrics_area)
             s == WindowStart(l, app_lyrics_offset, app_track, h)
             e == WindowEnd(l, app_lyrics_offset, app_track, h)
         IN  app_lyrics_hitboxes' = [k \in 1 .. (e - s) |-> l[s + k].timestamp_ms]]_vars

\* the table a render pass has to leave: one entry per line the pass draws, in window
\* order, each with that line's timestamp; none when the pass draws no lyric line
TableOfPass ==
    IF IsSome(lyrics_area) THEN Hitboxes(app_lyrics, app_lyrics_offset, app_track, Unwrap(lyrics_area))
    ELSE << >>

\* C14: every render pass leaves the hit-test table of the lines it drew and no entry of
\* an earlier pass, also when it draws no lyric line
C14_HitTableRebuiltEveryPass ==
    [][(pc = "top" /\ pc' = "recv") => app_lyrics_hitboxes' = TableOfPass]_vars

\* the lines of the transcript the parser reads (none without a transcript)
TranscriptLines ==
    LET raw == Or(fn_args.synced_lyrics, fn_args.plain_lyrics)
    IN  IF IsNone(raw) THEN << >> ELSE Lines(Unwrap(raw))

AllDigits(s) == s /= << >> /\ \A i \in 1 .. Len(s) : IsDigit(s[i])

\* the timestamp grammar of the specification: minutes, ":", seconds, and optionally "."
\* with a fraction of one or two digits
WellFormedTag(tag) ==
    LET parts == Split(tag, ":")
    IN  /\ Len(parts) = 2
        /\ AllDigits(parts[1])
        /\ LET sec_parts == Split(parts[2], ".")
           IN  /\ Len(sec_parts) \in {1, 2}
               /\ AllDigits(sec_parts[1])
               /\ Len(sec_parts) = 2 => (AllDigits(sec_parts[2]) /\ Len(sec_parts[2]) \in {1, 2})

\* a line "[tag]text" carries a tag at its start
Tagged(line) == line /= << >> /\ Head(line) = "[" /\ IsSome(Find(line, "]"))
TagOf(line) == Slice(line, 1, Unwrap(Find(line, "]")))
TextOf(line) == Trim(SliceFrom(line, Unwrap(Find(line, "]")) + 1))

\* a well-formed time-tagged line of the specification
WellFormedLine(line) == Tagged(line) /\ WellFormedTag(TagOf(line))

\* the milliseconds a well-formed tag denotes: a two-digit fraction is centiseconds, a
\* one-digit fraction is taken verbatim
StampOf(tag) ==
    LET parts == Split(tag, ":")
        sec_parts == Split(parts[2], ".")
        frac == IF Len(sec_parts) = 2
                THEN (IF Len(sec_parts[2]) = 2 THEN 10 ELSE 1) * DecimalValue(sec_parts[2])
                ELSE 0
    IN  DecimalValue(parts[1]) * 60000 + DecimalValue(sec_parts[1]) * 1000 + frac

\* C15: parse never yields Some of zero lines, yields None for a transcript without any
\* tagged line (the empty one included), and yields None only if the transcript has no
\* well-formed time-tagged line
C15_NoneIffNoTimedLine ==
    IsSome(fn_rets.parse) =>
        LET result == Unwrap(fn_rets.parse)
        IN  /\ IsSome(result) => Len(Unwrap(result)) > 0
            /\ (\A i \in 1 .. Len(TranscriptLines) : ~Tagged(TranscriptLines[i])) => IsNone(result)
            /\ IsNone(result) =>
                   \A i \in 1 .. Len(TranscriptLines) : ~WellFormedLine(TranscriptLines[i])

\* C15 witness: a transcript of an untimed line and a line with a malformed tag was
\* parsed, to None
C15_Witness ==
    /\ fn_rets.parse = Some(None)
    /\ fn_args.synced_lyrics = Some(Transcript(<< << "g" >>, << "[", "x", ":", "0", "1", "]", "e" >> >>))

\* the well-formed time-tagged lines of the transcript, in transcript order, each with its
\* timestamp and text
RECURSIVE WellFormedLines(_)
WellFormedLines(ls) ==
    IF ls = << >> THEN << >>
    ELSE (IF WellFormedLine(Head(ls))
          THEN << Line(StampOf(TagOf(Head(ls))), TextOf(Head(ls))) >>
          ELSE << >>) \o WellFormedLines(Tail(ls))

\* C16: the lines parse recovers are exactly the well-formed time-tagged lines of the
\* transcript, in transcript order, each with its own timestamp and text: a line with a
\* malformed timestamp is dropped and no other line is affected
C16_OnlyMalformedLinesDropped ==
    IsSome(fn_rets.parse) =>
        UnwrapOr(Unwrap(fn_rets.parse), << >>) = WellFormedLines(TranscriptLines)

\* the minutes and the whole seconds written in a tag parse_timestamp accepts
WrittenMinutes(tag) == Unwrap(ParseU64(Split(tag, ":")[1]))
WrittenSeconds(tag) == Unwrap(ParseU64(Split(Split(tag, ":")[2], ".")[1]))

\* the minutes and the seconds a formatted time shows
ShownMinutes(time) == DecimalValue(Split(time, ":")[1])
ShownSeconds(time) == DecimalValue(Split(time, ":")[2])

\* C17: for every tag parse_timestamp accepts, the parsed value formatted back as mm:ss
\* shows the minutes and the whole seconds written in the tag
C17_TimestampRoundTrip ==
    IsSome(fn_rets.times) =>
        \A i \in 1 .. Len(TagsOf(fn_args)) :
            LET time == Unwrap(fn_rets.times)[i]
            IN  IsSome(time) =>
                    /\ ShownMinutes(Unwrap(time)) = WrittenMinutes(TagsOf(fn_args)[i])
                    /\ ShownSeconds(Unwrap(time)) = WrittenSeconds(TagsOf(fn_args)[i])

\* C18: the application state a render pass reads while the lyrics fetch of the current
\* track is in flight differs from the state after that fetch returned no lyrics
C18_LoadingDiffersFromEmpty ==
    [][\A task \in LyricsTasks :
         ( /\ LyricsResultOf(task)
           /\ IsSome(app_track)
           /\ task = LyricsTask(Unwrap(app_track))
           /\ IsNone(app_lyrics)
           /\ IsNone(app_lyrics') )
         => appVars' /= appVars]_vars

\* where a bitmap is rasterized
Rasterizers == {"render", "ui"}

\* the grid a rasterizer made of a decoded bitmap
Grid(place) == Unwrap(fn_rets[place]).value

\* place has rasterized a decoded bitmap
Rasterized(place) == fn_args.img.ok /\ IsSome(fn_rets[place]) /\ Unwrap(fn_rets[place]).ok

\* the requested dimensions are degenerate
Degenerate == fn_args.width = 0 \/ fn_args.height = 0

\* C19: rasterizing a bitmap of any size and aspect ratio to width w > 0 and h > 0 rows
\* gives exactly h rows of exactly w cells each
C19_GridIsRowsByWidth ==
    \A place \in Rasterizers :
        (Rasterized(place) /\ ~Degenerate) =>
            /\ Len(Grid(place)) = fn_args.height
            /\ \A r \in 1 .. Len(Grid(place)) : Len(Grid(place)[r]) = fn_args.width

\* C20 as stated: with width 0 or no rows asked for, rasterizing a bitmap fails in no way
\* and gives a grid of no rows
C20_DegenerateGivesNoRows ==
    \A place \in Rasterizers :
        (fn_args.img.ok /\ Degenerate /\ IsSome(fn_rets[place])) =>
            (Unwrap(fn_rets[place]).ok /\ Len(Grid(place)) = 0)

\* C20 amended: with width 0 or no rows asked for, rasterizing a bitmap fails in no way
\* and gives a grid without any cell: render_from_url gives as many rows as asked for,
\* each empty, and the render pass gives no row
C20_DegenerateGivesNoCells ==
    \A place \in Rasterizers :
        (fn_args.img.ok /\ Degenerate /\ IsSome(fn_rets[place])) =>
            /\ Unwrap(fn_rets[place]).ok
            /\ \A r \in 1 .. Len(Grid(place)) : Grid(place)[r] = << >>
            /\ Len(Grid(place)) = IF place = "render" THEN fn_args.height ELSE 0

\* C20 witness: both places have rasterized a bitmap to width 0 and two rows
C20_Witness ==
    /\ fn_args.img.ok
    /\ fn_args.width = 0
    /\ fn_args.height = 2
    /\ IsSome(fn_rets.render)
    /\ IsSome(fn_rets.ui)

\* pass i found a bitmap to rasterize: one is installed and the area is not degenerate
Rasterizable(frame) == IsSome(frame.artwork) /\ frame.width > 0 /\ frame.height > 0

\* C21: a render pass that finds the same bitmap and the same render dimensions as the
\* pass before it does not run the resample-and-fold rasterization again (the grid of the
\* pass before is reused)
C21_GridCachedAcrossPasses ==
    \A i \in 2 .. Len(fn_rets) :
        (Rasterizable(fn_args[i]) /\ fn_args[i] = fn_args[i - 1]) => fn_rets[i].resizes = << >>

\* the hold timer is running: a scroll input set it and 3000 ms have not elapsed since
HoldRunning == IsSome(app_last_scroll_time) /\ Unwrap(app_last_scroll_time) < ScrollHoldSecs

\* C22: while the state is Manual and the 3000 ms timeout has not fired, a tick runs the
\* convergence step: an offset below the natural index n is incremented by 1, one above it
\* is decremented by 1, and one equal to it is cleared to Auto
C22_TickConvergesDuringHold ==
    [][( /\ event' = "Tick"
         /\ IsSome(app_lyrics_offset) /\ HoldRunning
         /\ IsSome(app_lyrics) /\ IsSome(app_track) )
       => LET off == Unwrap(app_lyrics_offset)
              n == NaturalIndex(Unwrap(app_lyrics), Unwrap(app_track).position_ms)
          IN  app_lyrics_offset' = IF off < n THEN Some(off + 1)
                                   ELSE IF off > n THEN Some(off - 1)
                                   ELSE None]_vars

\* C23: a scroll input received in Auto with a timeline and a track present leaves the
\* offset min(n + 1, line_count - 1) for ScrollDown and max(n - 1, 0) for ScrollUp, n being
\* the natural index at the playback position, also past the last timestamp
C23_ScrollInAutoSeedsNaturalIndex ==
    [][(pc = "recv" /\ IsNone(app_lyrics_offset) /\ IsSome(app_lyrics) /\ IsSome(app_track))
       => LET lyrics == Unwrap(app_lyrics)
              n == NaturalIndex(lyrics, Unwrap(app_track).position_ms)
          IN  /\ event' = "ScrollDown" => app_lyrics_offset' = Some(Min(n + 1, Len(lyrics) - 1))
              /\ event' = "ScrollUp" => app_lyrics_offset' = Some(Max(n - 1, 0))]_vars

\* the event handled in this step is a scroll input
ScrollInput == event' \in {"ScrollDown", "ScrollUp"}

\* the event handled in this step is a click, or a TrackUpdate with a new track identity
ClickOrTrackChange ==
    \/ event' = "MouseDown"
    \/ event' = "TrackUpdate" /\ IsSome(app_track') /\ TrackId(Unwrap(app_track')) /= last_track_id

\* C24: a scroll input received in Manual restarts the hold timer; and while the timer is
\* running, no step other than a click or a track change returns the state to Auto, and
\* the offset changes only in the step of a scroll input, by one line at most
C24_ScrollRefreshesHold ==
    [][(pc = "recv" /\ pc' /= "done" /\ IsSome(app_lyrics_offset)) =>
         /\ ScrollInput => app_last_scroll_time' = Some(0)
         /\ (HoldRunning /\ ~ClickOrTrackChange) =>
                /\ IsSome(app_lyrics_offset')
                /\ IF ScrollInput
                   THEN Abs(Unwrap(app_lyrics_offset') - Unwrap(app_lyrics_offset)) <= 1
                   ELSE app_lyrics_offset' = app_lyrics_offset]_vars

\* C25: the playback position of the current track is written by the handling of a
\* TrackUpdate only: no input event, tick or render pass changes it
C25_PositionIsPureInput ==
    [][( /\ IsSome(app_track) /\ IsSome(app_track')
         /\ Unwrap(app_track').position_ms /= Unwrap(app_track).position_ms )
       => event' = "TrackUpdate"]_vars

\* C26: parse_timestamp accepts exactly the tags of the grammar (minutes, ":", seconds, and
\* optionally "." with a fraction of one or two digits) and yields for them
\* minutes * 60000 + seconds * 1000 + f, with f ten times a two-digit fraction, a one-digit
\* fraction verbatim and 0 without a fraction; it rejects every other tag
C26_TimestampGrammar ==
    IsSome(fn_rets.stamps) =>
        \A i \in 1 .. Len(TagsOf(fn_args)) :
            LET tag == TagsOf(fn_args)[i]
            IN  Unwrap(fn_rets.stamps)[i] = IF WellFormedTag(tag) THEN Some(StampOf(tag)) ELSE None

\* the resampled image a rasterizer folds: exactly width x (height * 2) pixels in
\* render_from_url, the aspect-preserving fit into the artwork area in the render pass
Resampled(place) ==
    IF place = "render"
    THEN resize_exact(fn_args.img.value, fn_args.width, fn_args.height * 2)
    ELSE resize(fn_args.img.value, fn_args.width, fn_args.height * 2)

\* pixel << x, y >> lies inside the image
InImage(pixel, img) ==
    /\ 0 <= pixel[1] /\ pixel[1] < img.width
    /\ 0 <= pixel[2] /\ pixel[2] < img.height

\* the rows of cells folded from the resampled image: the last rows of the grid, below
\* the padding the render pass puts on top
FoldedRows(place) ==
    LET n == (Resampled(place).height + 1) \div 2
    IN  SubSeq(Grid(place), Len(Grid(place)) - n + 1, Len(Grid(place)))

\* C27: output row r has one cell per column of the resampled image, with fg the pixel of
\* row 2r and bg the pixel of row 2r+1, or of row 2r again when row 2r+1 does not exist;
\* every pixel read lies inside the resampled image
C27_FoldsRowPairs ==
    \A place \in Rasterizers :
        (Rasterized(place) /\ (place = "ui" => ~Degenerate)) =>
            LET img == Resampled(place)
                n == (img.height + 1) \div 2
            IN  /\ Len(Grid(place)) >= n
                /\ \A r \in 0 .. n - 1 :
                       /\ Len(FoldedRows(place)[r + 1]) = img.width
                       /\ \A x \in 0 .. img.width - 1 :
                              LET cell == FoldedRows(place)[r + 1][x + 1]
                              IN  /\ cell.fg = << x, 2 * r >>
                                  /\ cell.bg = IF 2 * r + 1 < img.height THEN << x, 2 * r + 1 >>
                                               ELSE << x, 2 * r >>
                                  /\ InImage(cell.fg, img)
                                  /\ InImage(cell.bg, img)

\* C27 witness: both places have rasterized a bitmap of 2 x 3 pixels for 2 columns and 2
\* rows; the render pass folds a resampled image of 3 rows of pixels, the last row unpaired
C27_Witness ==
    /\ Rasterized("render")
    /\ Rasterized("ui")
    /\ fn_args.img.value = [width |-> 2, height |-> 3]
    /\ Resampled("ui") = [width |-> 2, height |-> 3]
    /\ Len(Grid("ui")) = 2
    /\ Grid("ui")[2][1].bg = << 0, 2 >>

\* the places of the channel that hold an input event
QueuedInputs == { i \in 1 .. Len(rx_queue) : IsInput(rx_queue[i]) }

\* C28: the loop applies the input events in the order of the input stream: the step that
\* handles input event m applies m's own handler, every input event still in the channel
\* is a later one of the stream, and every earlier one has been received before, whatever
\* other messages are in the channel
C28_InputsAppliedInOrder ==
    [][(pc = "recv" /\ pc' /= "recv" /\ IsSome(received) /\ IsInput(Unwrap(received))) =>
         LET m == Unwrap(received)
         IN  /\ event' = m.kind
             /\ m.kind = "MouseDown" => mouse_row' = m.arg
             /\ \A i \in QueuedInputs : rx_queue[i].seq > m.seq
             /\ m.seq = input_sent - Cardinality(QueuedInputs)]_vars

\* C28 witness: the second event of the stream, a click that hit a lyric line, has been
\* applied while a tick and the third event of the stream wait in the channel
C28_Witness ==
    /\ pc = "top"
    /\ received = Some(Msg("MouseDown", 2, Some(0)))
    /\ event = "MouseDown"
    /\ IsSome(player_seek)
    /\ Len(rx_queue) = 2
    /\ rx_queue[1].kind = "Tick"
    /\ rx_queue[2].seq = 3

\* C29: a TrackUpdate whose track identity differs from the last seen one starts exactly
\* one lyrics fetch, for that track; one whose identity equals the last seen one starts
\* none and keeps the timeline, the manual offset and the hold timer; no other step starts
\* a lyrics fetch, so polling the same song again adds no fetch to the one in flight
C29_OneFetchPerTrackChange ==
    [][IF event' = "TrackUpdate" /\ pc = "recv" /\ IsSome(app_track')
       THEN LET track == Unwrap(app_track')
            IN  IF TrackId(track) /= last_track_id
                THEN lyrics_tasks' = lyrics_tasks (+) SetToBag({LyricsTask(track)})
                ELSE /\ lyrics_tasks' = lyrics_tasks
                     /\ app_lyrics' = app_lyrics
                     /\ app_lyrics_offset' = app_lyrics_offset
                     /\ app_last_scroll_time' = app_last_scroll_time
       ELSE \A task \in LyricsTasks : CopiesIn(task, lyrics_tasks') <= CopiesIn(task, lyrics_tasks)]_vars

\* C29 witness: the song that is playing was polled again while its lyrics fetch is in
\* flight and the state is Manual: one fetch is in flight and nothing was cleared
C29_Witness ==
    /\ event = "TrackUpdate"
    /\ IsSome(app_track)
    /\ last_track_id = TrackId(Unwrap(app_track))
    /\ CopiesIn(LyricsTask(Unwrap(app_track)), lyrics_tasks) = 1
    /\ IsSome(app_lyrics)
    /\ IsSome(app_lyrics_offset)
    /\ IsSome(app_last_scroll_time)

\* C30: whenever a manual offset exists, a timeline and a current track are installed
C30_ManualHasTimelineAndTrack ==
    IsSome(app_lyrics_offset) => (IsSome(app_lyrics) /\ IsSome(app_track))

\* C31: for every timeline, offset, track and viewport height (0 included), the window of
\* the render pass satisfies 0 <= start <= end <= line_count, the subtraction end - start
\* does not underflow, and the lines taken are those of the window, all inside the timeline
C31_WindowWithinTimeline ==
    IsSome(fn_rets.window) =>
        LET w == Unwrap(fn_rets.window)
            n == Len(fn_args.lyrics)
        IN  /\ 0 <= w.start /\ w.start <= w.end /\ w.end <= n
            /\ w.take = Ok(w.end - w.start)
            /\ w.lines = w.start .. w.end - 1
            /\ w.lines \subseteq 0 .. n - 1

\* C31 witness: a pass has computed the window of a one-line timeline under a manual
\* offset on the third line, for a card of height 0
C31_Witness ==
    /\ IsSome(fn_rets.window)
    /\ Len(fn_args.lyrics) = 1
    /\ fn_args.offset = Some(2)
    /\ fn_args.height = 0


\* C32: for every timeline and position, the line the render pass highlights as current is
\* the index the scroll seeding and the tick convergence use as their target
C32_HighlightEqualsTarget ==
    (\A place \in Places : IsSome(fn_rets[place])) =>
        /\ fn_rets.ui = fn_rets.seed
        /\ fn_rets.ui = fn_rets.tick


\* C33: a TrackUpdate whose (name, artist) pair differs from the pair of the TrackUpdate
\* before it is treated as a track change: timeline, manual offset and timer are reset and
\* the lyrics of the new track are fetched
C33_DifferentPairIsTrackChange ==
    [][(/\ event' = "TrackUpdate" /\ pc = "recv"
        /\ IsSome(app_track) /\ IsSome(app_track')
        /\ TrackKey(Unwrap(app_track')) /= TrackKey(Unwrap(app_track)))
       => /\ IsNone(app_lyrics')
          /\ IsNone(app_lyrics_offset')
          /\ IsNone(app_last_scroll_time')
          /\ lyrics_tasks' = lyrics_tasks (+) SetToBag({LyricsTask(Unwrap(app_track'))})]_vars


\* C34: the hold timer exists only in Manual state: without a manual offset
\* last_scroll_time is None
C34_TimerOnlyInManual ==
    IsNone(app_lyrics_offset) => IsNone(app_last_scroll_time)


\* C35: a TrackUpdate(None) makes the artwork state Idle and forgets the last-track
\* identity and the last-artwork URL, and the next reported track is handled as a track
\* change: timeline, manual offset and timer are reset, its lyrics are fetched, and its
\* artwork too if it has a URL
C35_NoSessionForgetsTrack ==
    [][(event' = "TrackUpdate" /\ pc = "recv") =>
         IF IsNone(app_track')
         THEN /\ app_artwork' = ArtIdle
              /\ last_track_id' = ""
              /\ last_artwork_url' = None
         ELSE IsNone(app_track) =>
                LET track == Unwrap(app_track')
                IN  /\ IsNone(app_lyrics')
                    /\ IsNone(app_lyrics_offset')
                    /\ IsNone(app_last_scroll_time')
                    /\ lyrics_tasks' = lyrics_tasks (+) SetToBag({LyricsTask(track)})
                    /\ IsSome(track.artwork_url) =>
                         /\ app_artwork' = ArtLoading
                         /\ artwork_tasks' =
                                artwork_tasks (+) SetToBag({ArtworkTask(track, track.artwork_url)})]_vars


\* the handler of the click at hand, by the fixed priority: a lyric line, then previous,
\* play/pause, next, the progress bar
ClickTarget ==
    LET a == fn_args
    IN  IF \E k \in 1 .. Len(a.lyrics_hitboxes) : contains(a.lyrics_hitboxes[k].rect, a.x, a.y)
        THEN "lyrics"
        ELSE IF contains(a.prev_btn, a.x, a.y) THEN "prev"
        ELSE IF contains(a.play_btn, a.x, a.y) THEN "play_pause"
        ELSE IF contains(a.next_btn, a.x, a.y) THEN "next"
        ELSE IF contains(a.progress_rect, a.x, a.y) THEN "progress"
        ELSE "none"

\* C36: a left click triggers at most one action, chosen by fixed priority: a lyric-line hit
\* (seek to the line, position resynchronised, offset dropped) excludes the buttons, and
\* otherwise exactly the first of previous, play/pause, next and progress-bar seek whose
\* rectangle contains the cell is invoked (the progress bar seeking for a track of known
\* duration only); a click inside none of them changes nothing and calls nothing
C36_ClickTriggersOneAction ==
    IsSome(fn_rets.click) =>
        LET r == Unwrap(fn_rets.click)
            a == fn_args
            untouched == r.track = a.track /\ r.lyrics_offset = a.lyrics_offset
        IN  /\ Len(r.calls) <= 1
            /\ CASE ClickTarget = "lyrics" ->
                      /\ r.hit_lyrics
                      /\ Len(r.calls) = 1 /\ r.calls[1].op = "seek"
                      /\ IsNone(r.lyrics_offset)
                      /\ IsSome(a.track) =>
                           1000 * r.calls[1].seconds.num
                             = Unwrap(r.track).position_ms * r.calls[1].seconds.den
                 [] ClickTarget = "prev" -> r.calls = << Call("prev", None) >> /\ untouched
                 [] ClickTarget = "play_pause" -> r.calls = << Call("play_pause", None) >> /\ untouched
                 [] ClickTarget = "next" -> r.calls = << Call("next", None) >> /\ untouched
                 [] ClickTarget = "progress" ->
                      /\ untouched
                      /\ \A i \in 1 .. Len(r.calls) : r.calls[i].op = "seek"
                      /\ (Len(r.calls) = 1) <=> (IsSome(a.track) /\ Unwrap(a.track).duration_ms > 0)
                 [] OTHER -> r.calls = << >> /\ untouched

\* C36 witness: a click on a cell that the previous button, the play/pause button and the
\* progress bar all cover, and no lyric line, has been handled
C36_Witness ==
    /\ IsSome(fn_rets.click)
    /\ ~Unwrap(fn_rets.click).hit_lyrics
    /\ contains(fn_args.prev_btn, fn_args.x, fn_args.y)
    /\ contains(fn_args.play_btn, fn_args.x, fn_args.y)
    /\ contains(fn_args.progress_rect, fn_args.x, fn_args.y)

\* C37: a click on the progress bar issues a seek only when a track with duration_ms > 0 is
\* present, and the target lies within [0, duration]: it is
\* duration * (x - x0) / max(w, 1) for the bar at column x0 of width w
C37_ProgressSeekWithinTrack ==
    (/\ IsSome(fn_rets.click)
     /\ ~Unwrap(fn_rets.click).hit_lyrics
     /\ \E i \in 1 .. Len(Unwrap(fn_rets.click).calls) : Unwrap(fn_rets.click).calls[i].op = "seek")
    => LET t == Unwrap(fn_rets.click).calls[1].seconds
           bar == fn_args.progress_rect
       IN  /\ IsSome(fn_args.track)
           /\ Unwrap(fn_args.track).duration_ms > 0
           /\ t.den > 0
           /\ 0 <= t.num
           /\ 1000 * t.num <= Unwrap(fn_args.track).duration_ms * t.den
           /\ 1000 * t.num * Max(bar.width, 1)
                = Unwrap(fn_args.track).duration_ms * (fn_args.x - bar.x) * t.den

\* C37 witness: a click right of the first column of a progress bar that does not start at
\* the left edge of the terminal has issued the seek of the progress bar
C37_Witness ==
    /\ IsSome(fn_rets.click)
    /\ ~Unwrap(fn_rets.click).hit_lyrics
    /\ Len(Unwrap(fn_rets.click).calls) = 1
    /\ Unwrap(fn_rets.click).calls[1].op = "seek"
    /\ fn_args.progress_rect.x > 0
    /\ fn_args.x > fn_args.progress_rect.x


\* an artwork fetch was started by the step
ArtworkFetchStarted == BagCardinality(artwork_tasks') > BagCardinality(artwork_tasks)

\* C38: whenever the artwork state is Loading the fetch started with it is in flight and
\* reports Loaded or Failed, so under fair delivery the state does not stay Loading forever;
\* and an artwork fetch is started only by a TrackUpdate whose artwork URL differs from the
\* last one fetched, or, for a track without URL, whose track is new
C38_LoadingAlwaysResolves ==
    /\ [](app_artwork = ArtLoading => artwork_tasks /= EmptyBag)
    /\ [][(app_artwork /= ArtLoading /\ app_artwork' = ArtLoading) => ArtworkFetchStarted]_vars
    /\ [][(event' = "ArtworkUpdate" /\ pc = "recv") => app_artwork'.kind \in {"Loaded", "Failed"}]_vars
    /\ (app_artwork = ArtLoading) ~> (app_artwork.kind \in {"Loaded", "Failed", "Idle"})
    /\ [][ArtworkFetchStarted =>
            /\ event' = "TrackUpdate" /\ pc = "recv"
            /\ IsSome(app_track')
            /\ LET track == Unwrap(app_track')
               IN  /\ artwork_tasks' = artwork_tasks (+) SetToBag({ArtworkTask(track, track.artwork_url)})
                   /\ app_artwork' = ArtLoading
                   /\ IF IsSome(track.artwork_url)
                      THEN /\ track.artwork_url /= last_artwork_url
                           /\ last_artwork_url' = track.artwork_url
                      ELSE TrackId(track) /= last_track_id]_vars

\* C38 witness: the result of a fetch has arrived while the track it was started for is
\* still polled with the URL fetched, and no other fetch is in flight
C38_Witness ==
    /\ event = "ArtworkUpdate"
    /\ app_artwork.kind \in {"Loaded", "Failed"}
    /\ IsSome(app_track)
    /\ IsSome(last_artwork_url)
    /\ Unwrap(app_track).artwork_url = last_artwork_url
    /\ artwork_tasks = EmptyBag

====
